---- MODULE Spec2Model ----
(***************************************************************************)
(* Garage.ChatService: the POST /chat handler of main.py and the prompt    *)
(* loader / renderer of prompt_loader.py.                                   *)
(*                                                                          *)
(* Python text is a sequence of one-character strings, so that             *)
(* str.replace is computed and not assumed.  Python values that the code   *)
(* inspects dynamically (the result of yaml.safe_load) carry a type tag t. *)
(*                                                                          *)
(* A request advances by one external call per step (flag lookup, template *)
(* load, completion call), and requests interleave between steps.  chat()  *)
(* holds no await, so one event loop runs each request to its end; the     *)
(* interleavings include those runs.  A body that fails validation (no     *)
(* message) is answered by the framework and never reaches chat().         *)
(***************************************************************************)
EXTENDS Integers, Sequences, FiniteSets, TLC

(* ------------------------------ bounds --------------------------------- *)

\* number of POST /chat requests in flight in one behaviour
NumRequests == 2

\* a template content of the render specification is a concatenation of at
\* most this many pieces
MaxPieces == 3

(* --------------------------- Python values ----------------------------- *)

PyNone == [t |-> "None"]

PyStr(s) == [t |-> "str", v |-> s]

PyList(l) == [t |-> "list", v |-> l]

PyDict(d) == [t |-> "dict", v |-> d]

\* the result of a call: a returned value, or a raised exception
Return(v) == [exc |-> "none", val |-> v]

Raise(e) == [exc |-> e]

Raised(r) == r.exc # "none"

(* ------------------------------ strings -------------------------------- *)

\* f"{{{{{key}}}}}" : the placeholder token of a variable name
Token(key) == <<"{", "{">> \o key \o <<"}", "}">>

StartsWith(s, p) == Len(s) >= Len(p) /\ SubSeq(s, 1, Len(p)) = p

\* a replace that stops after the first occurrence
RECURSIVE ReplaceFirst(_, _, _)
ReplaceFirst(s, old, new) ==
    IF Len(s) < Len(old) THEN s
    ELSE IF StartsWith(s, old)
         THEN new \o SubSeq(s, Len(old) + 1, Len(s))
         ELSE <<Head(s)>> \o ReplaceFirst(Tail(s), old, new)

\* str.replace(old, new) for a non-empty old: every non-overlapping
\* occurrence, scanning left to right; the inserted text is not rescanned
RECURSIVE Replace(_, _, _)
Replace(s, old, new) ==
    IF Len(s) < Len(old) THEN s
    ELSE IF StartsWith(s, old)
         THEN new \o Replace(SubSeq(s, Len(old) + 1, Len(s)), old, new)
         ELSE <<Head(s)>> \o Replace(Tail(s), old, new)

(* --------------------------- prompt_loader ----------------------------- *)

\* a loop over variables.items() that ends after its first pair
SubstituteFirstOnly(content, variables) ==
    IF variables = <<>> THEN content
    ELSE Replace(content, Token(variables[1][1]), variables[1][2])

\* for key, value in variables.items(): content = content.replace(...)
\* variables is the dict in its iteration order: a sequence of <<key, value>>
RECURSIVE Substitute(_, _)
Substitute(content, variables) ==
    IF variables = <<>> THEN content
    ELSE Substitute(Replace(content, Token(variables[1][1]), variables[1][2]),
                    Tail(variables))

\* one turn of the loop body of render_messages: msg['content'], the
\* substitution, msg['role']
RenderOne(msg, variables) ==
    IF msg.t # "dict" THEN Raise("TypeError")
    ELSE IF "content" \notin DOMAIN msg.v THEN Raise("KeyError")
    ELSE IF msg.v["content"].t # "str" THEN Raise("AttributeError")
    ELSE IF "role" \notin DOMAIN msg.v THEN Raise("KeyError")
    ELSE Return([role |-> msg.v["role"].v,
                 content |-> Substitute(msg.v["content"].v, variables)])

RECURSIVE RenderList(_, _)
RenderList(msgs, variables) ==
    IF msgs = <<>> THEN Return(<<>>)
    ELSE LET first == RenderOne(msgs[1], variables)
         IN  IF Raised(first) THEN first
             ELSE LET rest == RenderList(Tail(msgs), variables)
                  IN  IF Raised(rest) THEN rest
                      ELSE Return(<<first.val>> \o rest.val)

\* render_messages(prompt, variables)
render_messages(prompt, variables) ==
    IF prompt.t # "dict" THEN Raise("AttributeError")
    ELSE IF "messages" \notin DOMAIN prompt.v THEN Return(<<>>)
    ELSE IF prompt.v["messages"].t # "list" THEN Raise("TypeError")
    ELSE RenderList(prompt.v["messages"].v, variables)

\* get_model_parameters(prompt)
get_model_parameters(prompt) ==
    IF prompt.t # "dict" THEN Raise("AttributeError")
    ELSE IF "modelParameters" \in DOMAIN prompt.v
         THEN Return(prompt.v["modelParameters"])
         ELSE Return(PyDict(<<>>))

\* yaml.safe_load of a file's text: a syntax error raises, an empty document
\* is None, anything else is the document's value, whatever its shape
safe_load(file) ==
    IF file.syntax = "invalid" THEN Raise("YAMLError") ELSE Return(file.doc)

\* a loader that falls back to the first file of the directory
load_prompt_fallback(prompt_name, prompts_dir) ==
    IF prompt_name \notin DOMAIN prompts_dir
    THEN safe_load(prompts_dir[CHOOSE n \in DOMAIN prompts_dir : TRUE])
    ELSE safe_load(prompts_dir[prompt_name])

\* load_prompt(prompt_name, prompts_dir): open() raises FileNotFoundError for
\* a missing {prompt_name}.prompt.yml; the parsed value is returned unchecked
load_prompt(prompt_name, prompts_dir) ==
    IF prompt_name \notin DOMAIN prompts_dir THEN Raise("FileNotFoundError")
    ELSE safe_load(prompts_dir[prompt_name])

(* ------------------------- the prompts directory ----------------------- *)

MessageKey == <<"m", "e", "s", "s", "a", "g", "e">>

ExpertDoc ==
    PyDict([messages |-> PyList(<<
                PyDict([role |-> PyStr("system"), content |-> PyStr(<<"E">>)]),
                PyDict([role |-> PyStr("user"),
                        content |-> PyStr(<<"Q", ":">> \o Token(MessageKey)
                                          \o <<"?">> \o Token(MessageKey))])>>),
            modelParameters |-> PyDict([temperature |-> "0.5"])])

\* no messages, no modelParameters
BriefDoc == PyDict([name |-> PyStr(<<"b">>)])

\* a message entry without content
NoContentDoc ==
    PyDict([messages |-> PyList(<<PyDict([role |-> PyStr("system")])>>)])

\* "modelParameters:" with nothing after it
NullParamsDoc ==
    PyDict([messages |-> PyList(<<
                PyDict([role |-> PyStr("user"),
                        content |-> PyStr(Token(MessageKey))])>>),
            modelParameters |-> PyNone])

\* PROMPTS_DIR: file name (without .prompt.yml) -> file
PROMPTS_DIR ==
    [expert     |-> [syntax |-> "valid", doc |-> ExpertDoc],
     brief      |-> [syntax |-> "valid", doc |-> BriefDoc],
     empty      |-> [syntax |-> "valid", doc |-> PyNone],
     broken     |-> [syntax |-> "invalid", doc |-> PyNone],
     listdoc    |-> [syntax |-> "valid", doc |-> PyList(<<PyStr(<<"x">>)>>)],
     nocontent  |-> [syntax |-> "valid", doc |-> NoContentDoc],
     nullparams |-> [syntax |-> "valid", doc |-> NullParamsDoc]]

\* the names the prompt-file flag can resolve to; "ghost" has no file
PromptNames == DOMAIN PROMPTS_DIR \cup {"ghost"}

(* ------------------------------ main.py -------------------------------- *)

Requests == 1 .. NumRequests

\* a value not assigned yet
Unset == [t |-> "unset"]

\* POST /chat bodies that pass validation (message is required): userId
\* absent, blank, or given; the second message is itself the placeholder
ChatBodies ==
    {[message |-> <<"h", "i">>],
     [message |-> <<"h", "i">>, userId |-> ""],
     [message |-> Token(MessageKey), userId |-> "u1"]}

\* a request model whose userId has no default value
ChatRequestNoDefault(body) ==
    [message |-> body.message,
     userId  |-> IF "userId" \in DOMAIN body THEN body.userId ELSE ""]

\* class ChatRequest(BaseModel): message: str; userId: str = "anonymous"
ChatRequest(body) ==
    [message |-> body.message,
     userId  |-> IF "userId" \in DOMAIN body THEN body.userId ELSE "anonymous"]

\* EvaluationContext(targeting_key=request.userId,
\*                   attributes={"userId": request.userId})
EvaluationContext(userId) ==
    [targeting_key |-> userId, attributes |-> [userId |-> userId]]

\* what client.get_boolean_value("enable-chatbot", True, ctx) can do
BoolFlagResults == {Raise("Exception"), Return(TRUE), Return(FALSE)}

\* what client.get_string_value("prompt-file", "expert", ctx) can do
StringFlagResults == {Raise("Exception")} \cup {Return(n) : n \in PromptNames}

\* what openai_client.chat.completions.create(...) can do: raise, or return
\* a response with its list of choices (each a message content, str or None)
CompletionResults ==
    {Raise("APIError"),
     Return(<<>>),
     Return(<<PyNone>>),
     Return(<<PyStr("Ferrari won in 2023")>>),
     Return(<<PyStr("Porsche"), PyStr("Audi")>>)}

\* counter attribute sets
Labels(status, prompt_style) == [status |-> status, prompt_style |-> prompt_style]

\* a handler that never looks at the flag's value
NeverDisabled(chatbot_enabled) == "continue"

\* if not chatbot_enabled: ... raise HTTPException(503)
AfterEnabledCheck(chatbot_enabled) ==
    IF ~chatbot_enabled THEN "disabled" ELSE "continue"

HTTPException(status_code, detail) ==
    [kind |-> "http_exception", status |-> status_code, detail |-> detail]

\* an exception that leaves the handler: the server answers 500 itself
Unhandled(exc) ==
    [kind |-> "unhandled_exception", status |-> 500, detail |-> <<exc>>]

\* the two except clauses of the handler's try block
ExceptClause(exc, prompt_file) ==
    IF exc = "FileNotFoundError"
    THEN HTTPException(500, <<"Prompt file '", prompt_file, "' not found">>)
    ELSE HTTPException(500, <<"Error processing chat request">>)

\* model_params.get("temperature", 0.7)
Temperature(model_params) ==
    IF model_params.t # "dict" THEN Raise("AttributeError")
    ELSE IF "temperature" \in DOMAIN model_params.v
         THEN Return(model_params.v["temperature"])
         ELSE Return("0.7")

\* response.choices[0].message.content
FirstChoiceContent(choices) ==
    IF choices = <<>> THEN Raise("IndexError") ELSE Return(choices[1])

\* len(answer), the value of the response_length span attribute
ResponseLength(answer) ==
    IF answer.t = "str" THEN Return("len") ELSE Raise("TypeError")

\* a response model whose response field is Optional[str]
ChatResponseOptional(response, prompt_style) ==
    Return([response |-> IF response.t = "str" THEN response.v ELSE "null",
            prompt_style |-> prompt_style])

\* class ChatResponse(BaseModel): response: str; prompt_style: str
\* pydantic rejects None for a str field
ChatResponse(response, prompt_style) ==
    IF response.t # "str" THEN Raise("ValidationError")
    ELSE Return([response |-> response.v, prompt_style |-> prompt_style])

\* success metrics tagged with status error
SuccessLabelsAsError(prompt_file) == Labels("error", prompt_file)

\* {"status": "success", "prompt_style": prompt_file}
SuccessLabels(prompt_file) == Labels("success", prompt_file)

\* the handler from the answer to the return, inside the try block; with
\* instrumented = FALSE the span attribute, counter and histogram statements
\* are left out.  res: the returned body or the raised exception; adds and
\* samples: the counter and histogram calls made on the way
SuccessPath(answer, prompt_file, instrumented) ==
    IF instrumented /\ Raised(ResponseLength(answer))
    THEN [res |-> ResponseLength(answer), adds |-> <<>>, samples |-> <<>>]
    ELSE [res     |-> ChatResponse(answer, prompt_file),
          adds    |-> IF instrumented THEN <<SuccessLabels(prompt_file)>>
                      ELSE <<>>,
          samples |-> IF instrumented THEN <<[prompt_style |-> prompt_file]>>
                      ELSE <<>>]

\* the HTTP outcome of a result of the try block
OutcomeOf(res, prompt_file) ==
    IF Raised(res) THEN ExceptClause(res.exc, prompt_file)
    ELSE [kind |-> "response", status |-> 200, body |-> res.val]

VARIABLES
    started,                \* the lifespan's startup has run
    chat_request_counter,   \* [created, points]: None until setup_telemetry
    chat_request_duration,  \* [created, samples]: None until setup_telemetry
    reqs,                   \* each request: position, locals, what it did
    render                  \* the renderer applied on its own: inputs, outputs

vars == <<started, chat_request_counter, chat_request_duration, reqs, render>>

handlerVars == <<started, chat_request_counter, chat_request_duration, reqs>>

IdleRequest ==
    [pc |-> "idle", body |-> Unset, request |-> Unset, eval_context |-> Unset,
     chatbot_enabled |-> Unset, prompt_file |-> "unset", prompt |-> Unset,
     messages |-> Unset, model_params |-> Unset, completion |-> Unset,
     answer |-> Unset, outcome |-> Unset,
     calls |-> <<>>, adds |-> <<>>, samples |-> <<>>]

\* the module is imported: no instrument yet, no request
InitHandler ==
    /\ started = FALSE
    /\ chat_request_counter = [created |-> FALSE, points |-> [l \in {} |-> 0]]
    /\ chat_request_duration = [created |-> FALSE, samples |-> [l \in {} |-> 0]]
    /\ reqs = [r \in Requests |-> IdleRequest]

NoRender ==
    [tpl |-> Unset, varsA |-> <<>>, varsB |-> <<>>, union |-> <<>>,
     outA |-> Unset, outAB |-> Unset, outUnion |-> Unset]

Init == InitHandler /\ render = NoRender

\* lifespan: setup_telemetry() creates both instruments on each of its three
\* paths (no endpoint, exporters configured, exporter set-up failed)
Lifespan ==
    /\ ~started
    /\ started' = TRUE
    /\ chat_request_counter' = [chat_request_counter EXCEPT !.created = TRUE]
    /\ chat_request_duration' = [chat_request_duration EXCEPT !.created = TRUE]
    /\ UNCHANGED <<reqs, render>>

\* the number of points (samples) an instrument holds for an attribute set
PointsAt(points, labels) ==
    IF labels \in DOMAIN points THEN points[labels] ELSE 0

\* one more point for an attribute set
Aggregate(points, labels) ==
    [l \in DOMAIN points \cup {labels} |->
        IF l = labels THEN PointsAt(points, l) + 1 ELSE points[l]]

\* if chat_request_counter: chat_request_counter.add(1, labels), for each
\* of the labels in turn
RECURSIVE CounterAdd(_, _)
CounterAdd(counter, adds) ==
    IF adds = <<>> \/ ~counter.created THEN counter
    ELSE CounterAdd([counter EXCEPT !.points = Aggregate(@, Head(adds))],
                    Tail(adds))

\* if chat_request_duration: chat_request_duration.record(duration, attrs)
RECURSIVE HistogramRecord(_, _)
HistogramRecord(histogram, samples) ==
    IF samples = <<>> \/ ~histogram.created THEN histogram
    ELSE HistogramRecord([histogram EXCEPT !.samples = Aggregate(@, Head(samples))],
                         Tail(samples))

\* a step of request r: its new locals, the counter and histogram calls
Step(r, new, adds, samples) ==
    /\ reqs' = [reqs EXCEPT ![r] =
                 [new EXCEPT
                     !.adds = IF chat_request_counter.created THEN @ \o adds ELSE @,
                     !.samples = IF chat_request_duration.created
                                 THEN @ \o samples ELSE @]]
    /\ chat_request_counter' = CounterAdd(chat_request_counter, adds)
    /\ chat_request_duration' = HistogramRecord(chat_request_duration, samples)
    /\ UNCHANGED <<started, render>>

\* the request ends in one of the except clauses
Fail(r, rec, exc) ==
    Step(r, [rec EXCEPT !.pc = "done",
                        !.outcome = ExceptClause(exc, rec.prompt_file)],
         <<Labels("error", rec.prompt_file)>>, <<>>)

\* the server hands a validated body to chat(): the request model and the
\* evaluation context are built (requests are numbered in order of arrival)
Receive(r) ==
    /\ started
    /\ reqs[r].pc = "idle"
    /\ \A q \in Requests : q < r => reqs[q].pc # "idle"
    /\ \E body \in ChatBodies :
         LET request == ChatRequest(body)
         IN  Step(r, [reqs[r] EXCEPT
                         !.pc = "check_enabled",
                         !.body = body,
                         !.request = request,
                         !.eval_context = EvaluationContext(request.userId)],
                  <<>>, <<>>)

\* chatbot_enabled = client.get_boolean_value("enable-chatbot", True, ctx),
\* and the 503 when it is false
CheckEnabled(r) ==
    /\ reqs[r].pc = "check_enabled"
    /\ \E res \in BoolFlagResults :
         LET rec == [reqs[r] EXCEPT
                       !.chatbot_enabled = res,
                       !.calls = @ \o <<[fn |-> "get_boolean_value",
                                         flag |-> "enable-chatbot",
                                         context |-> reqs[r].eval_context]>>]
         IN  IF Raised(res)
             THEN Step(r, [rec EXCEPT !.pc = "done",
                                      !.outcome = Unhandled(res.exc)],
                       <<>>, <<>>)
             ELSE IF AfterEnabledCheck(res.val) = "disabled"
             THEN Step(r, [rec EXCEPT
                             !.pc = "done",
                             !.outcome = HTTPException(503,
                                  <<"Chatbot is currently disabled">>)],
                       <<Labels("disabled", "none")>>, <<>>)
             ELSE Step(r, [rec EXCEPT !.pc = "resolve_prompt"], <<>>, <<>>)

\* prompt_file = client.get_string_value("prompt-file", "expert", ctx)
ResolvePrompt(r) ==
    /\ reqs[r].pc = "resolve_prompt"
    /\ \E res \in StringFlagResults :
         LET rec == [reqs[r] EXCEPT
                       !.calls = @ \o <<[fn |-> "get_string_value",
                                         flag |-> "prompt-file",
                                         context |-> reqs[r].eval_context]>>]
         IN  IF Raised(res)
             THEN Step(r, [rec EXCEPT !.pc = "done",
                                      !.outcome = Unhandled(res.exc)],
                       <<>>, <<>>)
             ELSE Step(r, [rec EXCEPT !.pc = "load_prompt",
                                      !.prompt_file = res.val],
                       <<>>, <<>>)

\* the load_prompt span: load_prompt, render_messages, get_model_parameters
LoadPrompt(r) ==
    /\ reqs[r].pc = "load_prompt"
    /\ LET prompt == load_prompt(reqs[r].prompt_file, PROMPTS_DIR)
           rec == [reqs[r] EXCEPT
                     !.prompt = prompt,
                     !.calls = @ \o <<[fn |-> "load_prompt",
                                       name |-> reqs[r].prompt_file]>>]
       IN  IF Raised(prompt) THEN Fail(r, rec, prompt.exc)
           ELSE LET messages == render_messages(prompt.val,
                                    <<<<MessageKey, rec.request.message>>>>)
                    model_params == get_model_parameters(prompt.val)
                IN  IF Raised(messages) THEN Fail(r, rec, messages.exc)
                    ELSE IF Raised(model_params)
                    THEN Fail(r, rec, model_params.exc)
                    ELSE Step(r, [rec EXCEPT !.pc = "call_model",
                                             !.messages = PyList(messages.val),
                                             !.model_params = model_params.val],
                              <<>>, <<>>)

\* the github_models_call span and the success metrics
CallModel(r) ==
    /\ reqs[r].pc = "call_model"
    /\ LET temperature == Temperature(reqs[r].model_params)
       IN  IF Raised(temperature) THEN Fail(r, reqs[r], temperature.exc)
           ELSE \E res \in CompletionResults :
             LET rec == [reqs[r] EXCEPT
                           !.completion = res,
                           !.calls = @ \o <<[fn |-> "chat.completions.create",
                                             messages |-> reqs[r].messages,
                                             temperature |-> temperature.val]>>]
             IN  IF Raised(res) THEN Fail(r, rec, res.exc)
                 ELSE LET answer == FirstChoiceContent(res.val)
                      IN  IF Raised(answer) THEN Fail(r, rec, answer.exc)
                          ELSE LET path == SuccessPath(answer.val, rec.prompt_file, TRUE)
                                   got == [rec EXCEPT !.answer = answer.val]
                               IN  IF Raised(path.res)
                                   THEN Step(r, [got EXCEPT
                                                   !.pc = "done",
                                                   !.outcome = OutcomeOf(path.res, rec.prompt_file)],
                                             path.adds \o <<Labels("error", rec.prompt_file)>>,
                                             path.samples)
                                   ELSE Step(r, [got EXCEPT
                                                   !.pc = "done",
                                                   !.outcome = OutcomeOf(path.res, rec.prompt_file)],
                                             path.adds, path.samples)

Next ==
    \/ Lifespan
    \/ \E r \in Requests : Receive(r)
    \/ \E r \in Requests : CheckEnabled(r)
    \/ \E r \in Requests : ResolvePrompt(r)
    \/ \E r \in Requests : LoadPrompt(r)
    \/ \E r \in Requests : CallModel(r)

Spec == Init /\ [][Next]_vars

(* -------------------- the renderer applied on its own ------------------ *)

KeyA == <<"a">>

KeyB == <<"b">>

\* pieces of template text: the tokens of two variable names and of a name
\* that is never a key, an opening pair of braces, and a text that closes one
Pieces ==
    {Token(KeyA), Token(KeyB), Token(<<"c">>), <<"{", "{">>, <<"b", "}", "}">>}

RECURSIVE Concatenations(_)
Concatenations(n) ==
    IF n = 0 THEN {<<>>}
    ELSE LET shorter == Concatenations(n - 1)
         IN  shorter \cup {s \o p : s \in shorter, p \in Pieces}

Contents == Concatenations(MaxPieces)

\* substitution values: empty, plain, and one that is itself a token
Values == {<<>>, <<"x">>, Token(KeyB)}

\* dicts over the two keys, each in its iteration order
Mappings ==
    {<<>>}
    \cup {<<<<k, v>>>> : k \in {KeyA, KeyB}, v \in Values}
    \cup {<<<<p[1], v1>>, <<p[2], v2>>>> :
            p \in {<<KeyA, KeyB>>, <<KeyB, KeyA>>},
            v1 \in Values, v2 \in Values}

KeysOf(m) == {m[i][1] : i \in DOMAIN m}

\* the orders in which a dict holding the pairs of a and of b can iterate
UnionOrders(a, b) ==
    {u \in Mappings :
        /\ Len(u) = Len(a) + Len(b)
        /\ \A i \in DOMAIN a : \E j \in DOMAIN u : u[j] = a[i]
        /\ \A i \in DOMAIN b : \E j \in DOMAIN u : u[j] = b[i]}

Message(role, content) ==
    PyDict([role |-> PyStr(role), content |-> PyStr(content)])

\* parsed prompts: without a messages key, with an empty list, with one
\* message, with a system and a user message
Templates ==
    {PyDict([name |-> PyStr(<<"n">>)]), PyDict([messages |-> PyList(<<>>)])}
    \cup {PyDict([messages |-> PyList(<<Message("user", c)>>)]) :
            c \in Concatenations(1)}
    \cup {PyDict([messages |-> PyList(<<Message("system", Token(KeyA) \o <<"x">>),
                                        Message("user", c)>>)]) :
            c \in Contents}

\* a rendered list as the messages of a prompt, to render it again
AsPrompt(messages) ==
    PyDict([messages |-> PyList([i \in DOMAIN messages |->
                Message(messages[i].role, messages[i].content)])])

InitRender ==
    /\ InitHandler
    /\ \E tpl \in Templates, a \in Mappings, b \in Mappings :
         /\ KeysOf(a) \cap KeysOf(b) = {}
         /\ \E u \in UnionOrders(a, b) :
              render = [NoRender EXCEPT !.tpl = tpl, !.varsA = a, !.varsB = b,
                                        !.union = u]

\* render_messages(tpl, A)
RenderFirst ==
    /\ render.outA = Unset
    /\ render' = [render EXCEPT !.outA = render_messages(render.tpl, render.varsA)]
    /\ UNCHANGED handlerVars

\* render_messages({"messages": rendered}, B)
RenderSecond ==
    /\ render.outA # Unset
    /\ ~Raised(render.outA)
    /\ render.outAB = Unset
    /\ render' = [render EXCEPT
                    !.outAB = render_messages(AsPrompt(render.outA.val), render.varsB)]
    /\ UNCHANGED handlerVars

\* render_messages(tpl, A | B)
RenderUnion ==
    /\ render.outUnion = Unset
    /\ render' = [render EXCEPT !.outUnion = render_messages(render.tpl, render.union)]
    /\ UNCHANGED handlerVars

NextRender == RenderFirst \/ RenderSecond \/ RenderUnion

SpecRender == InitRender /\ [][NextRender]_vars

(* ------------------------- claims on the handler ----------------------- *)

Done(r) == reqs[r].pc = "done"

FlagCalls(r) ==
    {i \in DOMAIN reqs[r].calls :
        reqs[r].calls[i].fn \in {"get_boolean_value", "get_string_value"}}

CallsOf(r, fn) == {i \in DOMAIN reqs[r].calls : reqs[r].calls[i].fn = fn}

RECURSIVE SumOver(_, _)
SumOver(f, S) ==
    IF S = {} THEN 0
    ELSE LET x == CHOOSE y \in S : TRUE IN f[x] + SumOver(f, S \ {x})

\* C1: every request that has terminated ended in one of the handler's own
\* outcomes (200, FeatureDisabled 503, TemplateNotFound 500, CompletionError
\* 500): no exception left the handler, whichever external call raised.
C1_NothingPropagates ==
    \A r \in Requests :
        Done(r) => reqs[r].outcome.kind \in {"response", "http_exception"}

\* C2: a request whose enable-chatbot lookup returned false ends with 503 and
\* "Chatbot is currently disabled", has added exactly one status=disabled
\* point to the counter, and has made no call other than that lookup.
C2_DisabledStopsEarly ==
    \A r \in Requests :
        reqs[r].chatbot_enabled = Return(FALSE) =>
            /\ Done(r)
            /\ reqs[r].outcome = HTTPException(503, <<"Chatbot is currently disabled">>)
            /\ reqs[r].adds = <<Labels("disabled", "none")>>
            /\ PointsAt(chat_request_counter.points, Labels("disabled", "none")) >= 1
            /\ reqs[r].samples = <<>>
            /\ \A i \in DOMAIN reqs[r].calls :
                   reqs[r].calls[i].fn = "get_boolean_value"

C2_Witness ==
    \E r \in Requests : Done(r) /\ reqs[r].chatbot_enabled = Return(FALSE)

\* C3: a request whose prompt name has no file ends with 500 without a
\* completion call; and every completion call of a request comes after a
\* load_prompt call that returned and a render that returned.
C3_NoCallWithoutTemplate ==
    \A r \in Requests :
        /\ (reqs[r].prompt_file \notin DOMAIN PROMPTS_DIR /\ CallsOf(r, "load_prompt") # {}) =>
              /\ Done(r)
              /\ reqs[r].outcome.status = 500
              /\ CallsOf(r, "chat.completions.create") = {}
        /\ \A i \in CallsOf(r, "chat.completions.create") :
              /\ \E j \in CallsOf(r, "load_prompt") : j < i
              /\ reqs[r].prompt # Unset /\ ~Raised(reqs[r].prompt)
              /\ reqs[r].messages # Unset
              /\ reqs[r].calls[i].messages = reqs[r].messages

C3_Witness ==
    \E r, q \in Requests :
        /\ Done(r) /\ reqs[r].prompt_file = "ghost"
        /\ CallsOf(q, "chat.completions.create") # {}

\* the case of C4: flag true, template loaded and rendered, completion
\* call returned
CompletionReturned(r) ==
    /\ Done(r)
    /\ reqs[r].chatbot_enabled = Return(TRUE)
    /\ reqs[r].messages # Unset
    /\ reqs[r].completion # Unset
    /\ ~Raised(reqs[r].completion)

HasTextAnswer(r) ==
    /\ reqs[r].completion.val # <<>>
    /\ reqs[r].completion.val[1].t = "str"

SuccessOutcome(r) ==
    /\ reqs[r].outcome.kind = "response"
    /\ reqs[r].outcome.status = 200
    /\ reqs[r].completion.val # <<>>
    /\ reqs[r].completion.val[1].t = "str"
    /\ reqs[r].outcome.body = [response |-> reqs[r].completion.val[1].v,
                               prompt_style |-> reqs[r].prompt_file]
    /\ reqs[r].adds = <<Labels("success", reqs[r].prompt_file)>>
    /\ reqs[r].samples = <<[prompt_style |-> reqs[r].prompt_file]>>
    /\ PointsAt(chat_request_counter.points,
                Labels("success", reqs[r].prompt_file)) >= 1
    /\ PointsAt(chat_request_duration.samples,
                [prompt_style |-> reqs[r].prompt_file]) >= 1

\* C4 (as claimed): whenever the flag is true, the template loads and renders
\* and the completion call returns, the request ends with 200, the body
\* {response: first choice's content, prompt_style}, one success point and
\* one histogram sample.
C4_SuccessWheneverReturned ==
    \A r \in Requests : CompletionReturned(r) => SuccessOutcome(r)

\* C4 (amended): the same, when the returned response has a first choice
\* whose message content is a string.
C4_SuccessOnTextAnswer ==
    \A r \in Requests :
        (CompletionReturned(r) /\ HasTextAnswer(r)) => SuccessOutcome(r)

C4_Witness ==
    \E r \in Requests :
        /\ CompletionReturned(r) /\ HasTextAnswer(r)
        /\ Len(reqs[r].completion.val) = 2
        /\ reqs[r].prompt_file = "expert"

\* C5: every terminated request has added exactly one point to the counter,
\* a request that failed (500) has added a status=error point, the counter's
\* total is the number of terminated requests and its status=error total the
\* number of failed ones.
C5_OnePointPerRequest ==
    LET done == {r \in Requests : Done(r)}
        failed == {r \in done : reqs[r].outcome.status = 500}
        points == chat_request_counter.points
        errors == {l \in DOMAIN points : l.status = "error"}
    IN  /\ \A r \in Requests : Len(reqs[r].adds) <= 1
        /\ \A r \in done : Len(reqs[r].adds) = 1
        /\ \A r \in failed : reqs[r].adds = <<Labels("error", reqs[r].prompt_file)>>
        /\ SumOver(points, DOMAIN points) = Cardinality(done)
        /\ SumOver(points, errors) = Cardinality(failed)

\* the userId the evaluation context is claimed to carry
ClaimedUserId(body) ==
    IF "userId" \notin DOMAIN body \/ body.userId = "" THEN "anonymous"
    ELSE body.userId

\* the userId after the request model's default: only an absent field
DefaultedUserId(body) ==
    IF "userId" \notin DOMAIN body THEN "anonymous" ELSE body.userId

\* C6 (as claimed): the context passed to each flag lookup has targeting_key
\* and attributes.userId equal to the request's userId, and to "anonymous"
\* when the userId is absent or blank.
C6_ContextAnonymousWhenBlank ==
    \A r \in Requests : \A i \in FlagCalls(r) :
        /\ reqs[r].calls[i].context.targeting_key = ClaimedUserId(reqs[r].body)
        /\ reqs[r].calls[i].context.attributes.userId = ClaimedUserId(reqs[r].body)

\* C6 (amended): the context passed to each flag lookup has targeting_key and
\* attributes.userId equal to the request's userId, and to "anonymous" when
\* the userId is absent; a blank userId is passed on as it is.
C6_ContextAnonymousWhenAbsent ==
    \A r \in Requests : \A i \in FlagCalls(r) :
        /\ reqs[r].calls[i].context.targeting_key = DefaultedUserId(reqs[r].body)
        /\ reqs[r].calls[i].context.attributes.userId = DefaultedUserId(reqs[r].body)

C6_Witness ==
    \E r, q \in Requests :
        /\ "userId" \notin DOMAIN reqs[r].body
        /\ Cardinality(FlagCalls(r)) = 2
        /\ reqs[r].calls[2].context.targeting_key = "anonymous"
        /\ reqs[q].body # Unset
        /\ "userId" \in DOMAIN reqs[q].body
        /\ reqs[q].body.userId = ""
        /\ Cardinality(FlagCalls(q)) = 2
        /\ reqs[q].calls[2].context.targeting_key = ""

\* a message entry of a PromptDocument: role and content, both strings
WellFormedMessage(m) ==
    /\ m.t = "dict"
    /\ {"role", "content"} \subseteq DOMAIN m.v
    /\ m.v["role"].t = "str"
    /\ m.v["content"].t = "str"

\* a PromptDocument: a mapping whose messages, when present, are a list of
\* role/content entries and whose modelParameters, when present, is a mapping
WellFormedDocument(d) ==
    /\ d.t = "dict"
    /\ "messages" \in DOMAIN d.v =>
          /\ d.v["messages"].t = "list"
          /\ \A i \in DOMAIN d.v["messages"].v :
                 WellFormedMessage(d.v["messages"].v[i])
    /\ "modelParameters" \in DOMAIN d.v => d.v["modelParameters"].t = "dict"

\* C7: load fails with NotFound when the file does not exist, with a parse
\* error when it exists and is not a well-formed document, and whatever it
\* returns is a well-formed PromptDocument.
C7_LoadChecksShape ==
    \A r \in Requests :
        reqs[r].prompt # Unset =>
            LET name == reqs[r].prompt_file
                got == reqs[r].prompt
            IN  /\ name \notin DOMAIN PROMPTS_DIR =>
                       got = Raise("FileNotFoundError")
                /\ (name \in DOMAIN PROMPTS_DIR
                      /\ (PROMPTS_DIR[name].syntax = "invalid"
                            \/ ~WellFormedDocument(PROMPTS_DIR[name].doc))) =>
                       got = Raise("YAMLError")
                /\ ~Raised(got) => WellFormedDocument(got.val)

\* C10: the HTTP outcome of a request that got an answer from the completion
\* call is the outcome of the handler without its span-attribute, counter and
\* histogram statements; every other request ends before any such statement
\* can raise.
C10_ObservabilityKeepsOutcome ==
    \A r \in Requests :
        (Done(r) /\ reqs[r].answer.t # "unset") =>
            reqs[r].outcome =
                OutcomeOf(SuccessPath(reqs[r].answer, reqs[r].prompt_file, FALSE).res,
                          reqs[r].prompt_file)

C10_Witness ==
    \E r, q \in Requests :
        /\ Done(r) /\ reqs[r].answer = PyNone
        /\ ~Raised(reqs[r].completion)
        /\ reqs[r].outcome.status = 500
        /\ Done(q) /\ reqs[q].answer.t = "str"
        /\ reqs[q].outcome.status = 200

(* ------------------------ claims on the renderer ----------------------- *)

\* the text with every occurrence of a key's token, as found scanning the
\* text itself from left to right, replaced by that key's value
RECURSIVE ScanSubst(_, _)
ScanSubst(s, variables) ==
    IF s = <<>> THEN <<>>
    ELSE LET hits == {i \in DOMAIN variables : StartsWith(s, Token(variables[i][1]))}
         IN  IF hits = {} THEN <<Head(s)>> \o ScanSubst(Tail(s), variables)
             ELSE LET i == CHOOSE h \in hits : \A g \in hits : h <= g
                  IN  variables[i][2]
                      \o ScanSubst(SubSeq(s, Len(Token(variables[i][1])) + 1, Len(s)),
                                   variables)

\* one key after the other, each over the text the one before it left
RECURSIVE KeyByKey(_, _)
KeyByKey(s, variables) ==
    IF variables = <<>> THEN s
    ELSE KeyByKey(ScanSubst(s, <<variables[1]>>), Tail(variables))

RECURSIVE Occurrences(_, _)
Occurrences(s, token) ==
    IF Len(s) < Len(token) THEN 0
    ELSE (IF StartsWith(s, token) THEN 1 ELSE 0) + Occurrences(Tail(s), token)

\* the messages of a template (none when the key is missing)
SourceMessages(tpl) ==
    IF "messages" \in DOMAIN tpl.v THEN tpl.v["messages"].v ELSE <<>>

\* length, order and roles of the output are those of the source
SameShape(tpl, out) ==
    /\ ~Raised(out)
    /\ Len(out.val) = Len(SourceMessages(tpl))
    /\ \A i \in DOMAIN out.val :
           out.val[i].role = SourceMessages(tpl)[i].v["role"].v

\* C8 (as claimed): render returns as many messages as the document has, in
\* order, roles unchanged, each content being the source content with every
\* occurrence of {{key}}, for each key, replaced by its value.
C8_RenderReplacesSourceTokens ==
    render.outA # Unset =>
        /\ SameShape(render.tpl, render.outA)
        /\ \A i \in DOMAIN render.outA.val :
               render.outA.val[i].content =
                   ScanSubst(SourceMessages(render.tpl)[i].v["content"].v, render.varsA)

\* C8 (amended): render returns as many messages as the document has, in
\* order, roles unchanged; each content is the source content after the keys
\* were replaced one after the other in the mapping's iteration order, each
\* over the text left by the keys before it (for at most one key: the source
\* content with every occurrence of the token replaced); tokens of a name
\* that is not a key are still there; no messages gives an empty result.
C8_RenderReplacesKeyByKey ==
    render.outA # Unset =>
        /\ SameShape(render.tpl, render.outA)
        /\ \A i \in DOMAIN render.outA.val :
             LET src == SourceMessages(render.tpl)[i].v["content"].v
                 out == render.outA.val[i].content
             IN  /\ out = KeyByKey(src, render.varsA)
                 /\ Len(render.varsA) <= 1 => out = ScanSubst(src, render.varsA)
                 /\ Occurrences(out, Token(<<"c">>)) >= Occurrences(src, Token(<<"c">>))
        /\ SourceMessages(render.tpl) = <<>> => render.outA.val = <<>>

C8_Witness ==
    /\ render.outA # Unset
    /\ Len(render.varsA) = 1
    /\ Len(render.outA.val) = 2
    /\ Occurrences(SourceMessages(render.tpl)[2].v["content"].v,
                   Token(render.varsA[1][1])) = 2
    /\ Occurrences(SourceMessages(render.tpl)[2].v["content"].v, Token(<<"c">>)) = 1
    /\ render.outA.val[2].content # SourceMessages(render.tpl)[2].v["content"].v

\* C9 (as claimed): for disjoint key sets A and B, rendering with A and then
\* with B gives what rendering once with the union gives, in whichever order
\* the union iterates and whatever the values.
C9_TwoStepsEqualUnion ==
    (render.outAB # Unset /\ render.outUnion # Unset) =>
        render.outAB = render.outUnion

\* C9 (amended): for disjoint key sets A and B, rendering with A and then
\* with B gives what rendering once with the union gives when the union
\* iterates A's keys before B's keys.
C9_TwoStepsEqualUnionInOrder ==
    (render.outAB # Unset /\ render.outUnion # Unset
        /\ render.union = render.varsA \o render.varsB) =>
        render.outAB = render.outUnion

C9_Witness ==
    /\ render.outAB # Unset /\ render.outUnion # Unset
    /\ render.union = render.varsA \o render.varsB
    /\ render.varsA = <<<<KeyA, Token(KeyB)>>>>
    /\ render.varsB = <<<<KeyB, <<"x">>>>>>
    /\ Len(render.outAB.val) = 2
    /\ render.outAB.val[1].content = <<"x", "x">>
====
